---- MODULE Spec2Model ----
(***************************************************************************)
(* SQL mapping reviewer (sql_mapping_dashboard.py) and SQL update          *)
(* dashboard (Streamlit_Dashboard.py).                                     *)
(*                                                                         *)
(* A text is a sequence of one-character strings.  The regular             *)
(* expressions of the source are modelled character by character: word     *)
(* boundaries, look-arounds, case folding, leftmost non-overlapping        *)
(* substitution.  Names (tables, columns) range over identifiers made of   *)
(* word characters; they hold no backslash, so a name used as the          *)
(* replacement template of re.sub expands to itself.                       *)
(***************************************************************************)
EXTENDS Naturals, Sequences, FiniteSets

\* ------------------------------------------------------------ characters

UpperLetters == <<"A","B","C","D","E","F","G","H","I","J","K","L","M",
                  "N","O","P","Q","R","S","T","U","V","W","X","Y","Z">>

LowerLetters == <<"a","b","c","d","e","f","g","h","i","j","k","l","m",
                  "n","o","p","q","r","s","t","u","v","w","x","y","z">>

Digits == <<"0","1","2","3","4","5","6","7","8","9">>

\* The characters of the model in code-point order (str comparison order).
AsciiOrder == <<"\n", " ", "(", ")", ",", ".">> \o Digits \o UpperLetters
              \o <<"_">> \o LowerLetters

Range(f) == {f[i] : i \in DOMAIN f}

LetterSet == Range(UpperLetters) \cup Range(LowerLetters)

\* \w of the re module.
WordChars == LetterSet \cup Range(Digits) \cup {"_"}

\* \s of the re module, within the characters of the model.
SpaceChars == {" ", "\n"}

LowerOf == [c \in Range(AsciiOrder) |->
              IF c \in Range(UpperLetters)
              THEN LowerLetters[CHOOSE i \in DOMAIN UpperLetters : UpperLetters[i] = c]
              ELSE c]

UpperOf == [c \in Range(AsciiOrder) |->
              IF c \in Range(LowerLetters)
              THEN UpperLetters[CHOOSE i \in DOMAIN LowerLetters : LowerLetters[i] = c]
              ELSE c]

OrdOf == [c \in Range(AsciiOrder) |->
              CHOOSE i \in DOMAIN AsciiOrder : AsciiOrder[i] = c]

\* Case folding of one character under re.IGNORECASE.
Fold(c) == LowerOf[c]

\* str.upper()
Upper(s) == [i \in DOMAIN s |-> UpperOf[s[i]]]

\* Case-insensitive equality of two texts.
EqualFold(a, b) ==
    /\ Len(a) = Len(b)
    /\ \A i \in DOMAIN a : Fold(a[i]) = Fold(b[i])

\* Comparison of two str values (code-point lexicographic order).
RECURSIVE StrLess(_, _)
StrLess(a, b) ==
    IF Len(b) = 0 THEN FALSE
    ELSE IF Len(a) = 0 THEN TRUE
    ELSE IF a[1] = b[1] THEN StrLess(Tail(a), Tail(b))
    ELSE OrdOf[a[1]] < OrdOf[b[1]]

\* str.strip()
RECURSIVE LStrip(_)
LStrip(s) == IF Len(s) > 0 /\ s[1] \in SpaceChars THEN LStrip(Tail(s)) ELSE s

RECURSIVE RStrip(_)
RStrip(s) ==
    IF Len(s) > 0 /\ s[Len(s)] \in SpaceChars
    THEN RStrip(SubSeq(s, 1, Len(s) - 1)) ELSE s

Strip(s) == RStrip(LStrip(s))

\* ------------------------------------------------------ regex primitives

IsWordAt(s, i) == i >= 1 /\ i <= Len(s) /\ s[i] \in WordChars

\* \b between s[i-1] and s[i]  (i in 1..Len(s)+1)
WordBoundary(s, i) == IsWordAt(s, i - 1) # IsWordAt(s, i)

\* A match that tells the cases of the letters apart.
CaseSensitiveMatchAt(pat, s, i) ==
    /\ i + Len(pat) - 1 <= Len(s)
    /\ \A k \in 1..Len(pat) : s[i + k - 1] = pat[k]

\* re.escape(pat) matched at position i under re.IGNORECASE
MatchAt(pat, s, i) ==
    /\ i + Len(pat) - 1 <= Len(s)
    /\ \A k \in 1..Len(pat) : Fold(s[i + k - 1]) = Fold(pat[k])

\* The pattern without its two \b.
UnboundedMatch(name, s, i) == MatchAt(name, s, i)

\* rf'\b{re.escape(name)}\b' matched at position i
BoundaryMatch(name, s, i) ==
    /\ WordBoundary(s, i)
    /\ MatchAt(name, s, i)
    /\ WordBoundary(s, i + Len(name))

\* rf'(?<!\w){re.escape(name)}(?!\w)' matched at position i
LookaroundMatch(name, s, i) ==
    /\ ~IsWordAt(s, i - 1)
    /\ MatchAt(name, s, i)
    /\ ~IsWordAt(s, i + Len(name))

CharAt(s, i) == IF i <= Len(s) THEN <<s[i]>> ELSE <<>>

\* re.sub(rf'\b{re.escape(name)}\b', new, s, flags=re.IGNORECASE) from
\* position i on: leftmost matches, non-overlapping; an empty match is
\* replaced and the scan moves on by one character.
RECURSIVE BoundarySubFrom(_, _, _, _)
BoundarySubFrom(name, new, s, i) ==
    IF i > Len(s) + 1 THEN <<>>
    ELSE IF BoundaryMatch(name, s, i)
         THEN IF Len(name) = 0
              THEN new \o CharAt(s, i) \o BoundarySubFrom(name, new, s, i + 1)
              ELSE new \o BoundarySubFrom(name, new, s, i + Len(name))
         ELSE CharAt(s, i) \o BoundarySubFrom(name, new, s, i + 1)

BoundarySub(name, new, s) == BoundarySubFrom(name, new, s, 1)

\* The number of matches that scan replaces.
RECURSIVE BoundarySubCountFrom(_, _, _)
BoundarySubCountFrom(name, s, i) ==
    IF i > Len(s) + 1 THEN 0
    ELSE IF BoundaryMatch(name, s, i)
         THEN 1 + BoundarySubCountFrom(name, s,
                      IF Len(name) = 0 THEN i + 1 ELSE i + Len(name))
         ELSE BoundarySubCountFrom(name, s, i + 1)

\* re.search(rf'(?<!\w){re.escape(name)}(?!\w)', s, re.IGNORECASE)
LookaroundSearch(name, s) ==
    \E i \in 1..(Len(s) + 1) : LookaroundMatch(name, s, i)

FromWord == <<"F","R","O","M">>

NoNewline(s, a, b) == \A m \in a..b : s[m] # "\n"

\* re.search(rf'\bFROM\b.*\b{re.escape(table)}\b', s, re.IGNORECASE):
\* '.' does not match a line break.
FromTableSearchAfter(table, s, p) ==
    \E f \in p..(Len(s) + 1) :
        /\ NoNewline(s, p, f - 1)
        /\ BoundaryMatch(FromWord, s, f)
        /\ \E k \in (f + Len(FromWord))..(Len(s) + 1) :
              /\ NoNewline(s, f + Len(FromWord), k - 1)
              /\ BoundaryMatch(table, s, k)

FromTableSearch(table, s) ==
    \E f \in 1..(Len(s) + 1) :
        /\ BoundaryMatch(FromWord, s, f)
        /\ \E k \in (f + Len(FromWord))..(Len(s) + 1) :
              /\ NoNewline(s, f + Len(FromWord), k - 1)
              /\ BoundaryMatch(table, s, k)

\* End of the run of word characters that starts at i (i - 1 when s[i] is
\* no word character): the greedy \w* of the alias pattern, which the
\* following '\.' forces to take the whole run.
RECURSIVE WordRunEnd(_, _)
WordRunEnd(s, i) == IF IsWordAt(s, i) THEN WordRunEnd(s, i + 1) ELSE i - 1

\* rf'\b([a-zA-Z_]\w*)\.{re.escape(old_col)}\b' matched at position i
AliasMatch(old_col, s, i) ==
    /\ WordBoundary(s, i)
    /\ i <= Len(s)
    /\ s[i] \in LetterSet \cup {"_"}
    /\ LET j == WordRunEnd(s, i) IN
          /\ j + 1 <= Len(s)
          /\ s[j + 1] = "."
          /\ MatchAt(old_col, s, j + 2)
          /\ WordBoundary(s, j + 2 + Len(old_col))

\* re.sub(alias_replace_pattern, rf'\1.{new_col}', s, flags=re.IGNORECASE)
RECURSIVE AliasSubFrom(_, _, _, _)
AliasSubFrom(old_col, new_col, s, i) ==
    IF i > Len(s) THEN <<>>
    ELSE IF AliasMatch(old_col, s, i)
         THEN LET j == WordRunEnd(s, i) IN
              SubSeq(s, i, j) \o <<".">> \o new_col
                 \o AliasSubFrom(old_col, new_col, s, j + 2 + Len(old_col))
         ELSE <<s[i]>> \o AliasSubFrom(old_col, new_col, s, i + 1)

\* The alias rewrite made to wait for a FROM clause.
AliasSubUnderFrom(old_col, new_col, s) ==
    IF \E f \in 1..(Len(s) + 1) : BoundaryMatch(FromWord, s, f)
    THEN AliasSubFrom(old_col, new_col, s, 1) ELSE s

AliasSub(old_col, new_col, s) == AliasSubFrom(old_col, new_col, s, 1)

\* (?!\s*\() fails at position i: white space, then '('.
RECURSIVE FollowedByParen(_, _)
FollowedByParen(s, i) ==
    IF i > Len(s) THEN FALSE
    ELSE IF s[i] \in SpaceChars THEN FollowedByParen(s, i + 1)
    ELSE s[i] = "("

\* rf'\b{re.escape(old_col)}\b(?!\s*\()' matched at position i
StandaloneMatch(old_col, s, i) ==
    /\ BoundaryMatch(old_col, s, i)
    /\ ~FollowedByParen(s, i + Len(old_col))

StandaloneSearch(old_col, s) ==
    \E i \in 1..(Len(s) + 1) : StandaloneMatch(old_col, s, i)

\* re.search(rf'\w+\.{re.escape(old_col)}\b', line, re.IGNORECASE)
QualifiedSearch(old_col, s) ==
    \E i \in 1..Len(s) :
        /\ IsWordAt(s, i)
        /\ i + 1 <= Len(s)
        /\ s[i + 1] = "."
        /\ MatchAt(old_col, s, i + 2)
        /\ WordBoundary(s, i + 2 + Len(old_col))

\* re.sub(standalone_pattern, new_col, line, flags=re.IGNORECASE)
RECURSIVE StandaloneSubFrom(_, _, _, _)
StandaloneSubFrom(old_col, new_col, s, i) ==
    IF i > Len(s) + 1 THEN <<>>
    ELSE IF StandaloneMatch(old_col, s, i)
         THEN IF Len(old_col) = 0
              THEN new_col \o CharAt(s, i)
                      \o StandaloneSubFrom(old_col, new_col, s, i + 1)
              ELSE new_col
                      \o StandaloneSubFrom(old_col, new_col, s, i + Len(old_col))
         ELSE CharAt(s, i) \o StandaloneSubFrom(old_col, new_col, s, i + 1)

\* str.split('\n')
RECURSIVE SplitLinesFrom(_, _, _)
SplitLinesFrom(s, i, cur) ==
    IF i > Len(s) THEN <<cur>>
    ELSE IF s[i] = "\n" THEN <<cur>> \o SplitLinesFrom(s, i + 1, <<>>)
    ELSE SplitLinesFrom(s, i + 1, Append(cur, s[i]))

SplitLines(s) == SplitLinesFrom(s, 1, <<>>)

\* '\n'.join(lines)
RECURSIVE JoinLines(_)
JoinLines(lines) ==
    IF Len(lines) = 0 THEN <<>>
    ELSE IF Len(lines) = 1 THEN lines[1]
    ELSE lines[1] \o <<"\n">> \o JoinLines(Tail(lines))

\* ------------------------------------------------- MappingRepository

\* A missing cell of a data frame (NaN): no text, so it differs from every
\* sequence of characters.
NaN == <<"NaN">>

TableRequired == {"OldTableName", "NewTableName"}

ColumnRequired == {"TableName", "OldColumnName", "NewColumnName"}

\* DataFrame.dropna(subset=[...]) on the table sheet
DropNaTable(rows) ==
    SelectSeq(rows, LAMBDA r : r.OldTableName # NaN /\ r.NewTableName # NaN)

\* DataFrame.dropna(subset=[...]) on the column sheet
DropNaColumn(rows) ==
    SelectSeq(rows, LAMBDA r : /\ r.TableName # NaN
                               /\ r.OldColumnName # NaN
                               /\ r.NewColumnName # NaN)

\* .str.strip() on both columns of the table sheet
StripTable(rows) ==
    [i \in DOMAIN rows |-> [old |-> Strip(rows[i].OldTableName),
                            new |-> Strip(rows[i].NewTableName)]]

\* .str.strip() on the three columns of the column sheet
StripColumn(rows) ==
    [i \in DOMAIN rows |-> [table |-> Strip(rows[i].TableName),
                            old |-> Strip(rows[i].OldColumnName),
                            new |-> Strip(rows[i].NewColumnName)]]

\* set_index(key)[value].to_dict(): a key keeps the place of its first row
\* and the value of its last row.
RECURSIVE DictSet(_, _, _)
DictSet(d, k, v) ==
    IF Len(d) = 0 THEN <<[old |-> k, new |-> v]>>
    ELSE IF d[1].old = k THEN <<[old |-> k, new |-> v]>> \o Tail(d)
    ELSE <<d[1]>> \o DictSet(Tail(d), k, v)

RECURSIVE ToDictFrom(_, _, _)
ToDictFrom(pairs, i, d) ==
    IF i > Len(pairs) THEN d
    ELSE ToDictFrom(pairs, i + 1, DictSet(d, pairs[i].old, pairs[i].new))

ToDict(pairs) == ToDictFrom(pairs, 1, <<>>)

\* The keys of groupby('TableName'), sorted.
RECURSIVE SortKeys(_)
SortKeys(keys) ==
    IF keys = {} THEN <<>>
    ELSE LET m == CHOOSE k \in keys : \A o \in keys \ {k} : StrLess(k, o)
         IN <<m>> \o SortKeys(keys \ {m})

\* groupby('TableName').apply(lambda x: x.set_index('OldColumnName')
\*     ['NewColumnName'].to_dict()).to_dict()
GroupColumns(rows) ==
    LET keys == SortKeys({rows[i].table : i \in DOMAIN rows})
    IN [g \in DOMAIN keys |->
          [table |-> keys[g],
           cols  |-> ToDict(SelectSeq(rows, LAMBDA r : r.table = keys[g]))]]

LoadedTableMappings(table_rows) == ToDict(StripTable(DropNaTable(table_rows)))

LoadedColumnMappings(column_rows) ==
    GroupColumns(StripColumn(DropNaColumn(column_rows)))

\* ------------------------------------------------- StructuralValidator

ExactAt(sub, s, i) == \A k \in 1..Len(sub) : s[i + k - 1] = sub[k]

RECURSIVE ContainsFrom(_, _, _)
ContainsFrom(sub, s, i) ==
    IF i + Len(sub) - 1 > Len(s) THEN FALSE
    ELSE IF ExactAt(sub, s, i) THEN TRUE
    ELSE ContainsFrom(sub, s, i + 1)

\* sub in s
Contains(sub, s) == ContainsFrom(sub, s, 1)

\* s.count(c)
CountChar(c, s) == Cardinality({i \in DOMAIN s : s[i] = c})

SelectWord == <<"S","E","L","E","C","T">>

Finding(m) == [msg |-> m, old |-> <<>>, new |-> <<>>, table |-> <<>>]

\* What sqlparse.parse makes of the text: no statement for the empty text;
\* for white space alone no statement or one, by the version of the
\* library; otherwise its statements, or an exception of the library.
ParseOutcomes(text) ==
    IF text = <<>> THEN {"empty"}
    ELSE IF \A i \in DOMAIN text : text[i] \in SpaceChars
    THEN {"empty", "ok"}
    ELSE {"ok", "raise"}

\* The checks, stopping at the first finding.
ShortCircuitChecks(text) ==
    IF ~Contains(SelectWord, Upper(text))
    THEN <<Finding("ERROR: Missing SELECT clause")>>
    ELSE IF ~Contains(FromWord, Upper(text))
    THEN <<Finding("ERROR: Missing FROM clause")>>
    ELSE IF CountChar("(", text) # CountChar(")", text)
    THEN <<Finding("ERROR: Unbalanced parentheses")>>
    ELSE <<>>

\* The three checks of _validate_sql_structure, each on its own.
StructureChecks(text) ==
    (IF ~Contains(SelectWord, Upper(text))
       THEN <<Finding("ERROR: Missing SELECT clause")>> ELSE <<>>)
    \o (IF ~Contains(FromWord, Upper(text))
       THEN <<Finding("ERROR: Missing FROM clause")>> ELSE <<>>)
    \o (IF CountChar("(", text) # CountChar(")", text)
       THEN <<Finding("ERROR: Unbalanced parentheses")>> ELSE <<>>)

ValidateSqlStructure(text, outcome) ==
    IF outcome = "raise" THEN <<Finding("CRITICAL: SQL Parsing Failed")>>
    ELSE IF outcome = "empty" THEN <<Finding("ERROR: Empty SQL file")>>
    ELSE StructureChecks(text)

\* ------------------------------------------------------ MappingAuditor

TableFinding(r) ==
    [msg |-> "TABLE MAPPING", old |-> r.old, new |-> r.new, table |-> <<>>]

ColumnFinding(table, c) ==
    [msg |-> "COLUMN MAPPING", old |-> c.old, new |-> c.new, table |-> table]

\* One finding for each occurrence.
TableFindingPerOccurrence(r, text) ==
    [k \in 1..BoundarySubCountFrom(r.old, text, 1) |-> TableFinding(r)]

\* if re.search(pattern, sql_content, re.IGNORECASE): issues.append(...)
TableFindingOf(r, text) ==
    IF LookaroundSearch(r.old, text) THEN <<TableFinding(r)>> ELSE <<>>

RECURSIVE TableChecks(_, _)
TableChecks(tm, text) ==
    IF Len(tm) = 0 THEN <<>>
    ELSE TableFindingOf(tm[1], text) \o TableChecks(Tail(tm), text)

\* Either pattern of the column check: 'table.old_col', or old_col with
\* 'FROM ... table' after it on the same line.
ColumnPatternSearch(table, old_col, text) ==
    \/ LookaroundSearch(table \o <<".">> \o old_col, text)
    \/ \E i \in 1..(Len(text) + 1) :
          /\ LookaroundMatch(old_col, text, i)
          /\ FromTableSearchAfter(table, text, i + Len(old_col))

RECURSIVE ColumnGroupChecks(_, _, _)
ColumnGroupChecks(table, cols, text) ==
    IF Len(cols) = 0 THEN <<>>
    ELSE (IF ColumnPatternSearch(table, cols[1].old, text)
          THEN <<ColumnFinding(table, cols[1])>> ELSE <<>>)
         \o ColumnGroupChecks(table, Tail(cols), text)

RECURSIVE ColumnChecks(_, _)
ColumnChecks(cm, text) ==
    IF Len(cm) = 0 THEN <<>>
    ELSE ColumnGroupChecks(cm[1].table, cm[1].cols, text)
         \o ColumnChecks(Tail(cm), text)

CheckMappings(tm, cm, text) == TableChecks(tm, text) \o ColumnChecks(cm, text)

\* ----------------------------------------------------- SemanticAuditor

JoinWord == <<"J","O","I","N">>

\* _check_semantics walks the token tree of sqlparse: when the text parses
\* and holds the word JOIN the warning may be given or not, by the shape of
\* the tree; when parsing fails or gives no statement there is none (the
\* bare except).  The texts of the model hold no quote, so the check of the
\* WHERE clause finds nothing.
SemanticOutcomes(text, outcome) ==
    IF outcome = "ok" /\ Contains(JoinWord, Upper(text))
    THEN {<<>>, <<Finding("WARNING: JOIN without ON clause detected")>>}
    ELSE {<<>>}

\* ---------------------------------------------------- CorrectionEngine

\* The text after the first k rules of _apply_table_mappings.
RECURSIVE TableFold(_, _, _)
TableFold(text, tm, k) ==
    IF k = 0 THEN text
    ELSE BoundarySub(tm[k].old, tm[k].new, TableFold(text, tm, k - 1))

ApplyTableMappings(text, tm) == TableFold(text, tm, Len(tm))

\* new_to_old_tables.get(new_table): the old name of the last rule whose new
\* name it is; <<>> stands for None (both are skipped by 'if not').
RECURSIVE ReverseGet(_, _)
ReverseGet(tm, new_table) ==
    IF Len(tm) = 0 THEN <<>>
    ELSE IF tm[Len(tm)].new = new_table THEN tm[Len(tm)].old
    ELSE ReverseGet(SubSeq(tm, 1, Len(tm) - 1), new_table)

\* The column rules in the order _apply_column_mappings applies them, each
\* with the old table name of its group; a group with no old table name
\* is skipped.
RECURSIVE ColumnRules(_, _)
ColumnRules(tm, cm) ==
    IF Len(cm) = 0 THEN <<>>
    ELSE LET old_table == ReverseGet(tm, cm[1].table)
             cols == cm[1].cols
         IN (IF old_table = <<>> THEN <<>>
             ELSE [i \in DOMAIN cols |-> [old_table |-> old_table,
                                          old |-> cols[i].old,
                                          new |-> cols[i].new]])
            \o ColumnRules(tm, Tail(cm))

\* The loop over the lines for one column rule.
StandaloneLine(old_col, new_col, line) ==
    IF StandaloneSearch(old_col, line) /\ ~QualifiedSearch(old_col, line)
    THEN StandaloneSubFrom(old_col, new_col, line, 1)
    ELSE line

\* 'Handle standalone column references' for one column rule.
StandalonePass(old_table, old_col, new_col, text) ==
    IF FromTableSearch(old_table, text)
    THEN LET lines == SplitLines(text)
         IN JoinLines([i \in DOMAIN lines |->
                          StandaloneLine(old_col, new_col, lines[i])])
    ELSE text

\* The body of the inner loop of _apply_column_mappings for one rule.
ColumnRuleApply(rule, text) ==
    StandalonePass(rule.old_table, rule.old, rule.new,
                   AliasSub(rule.old, rule.new, text))

\* The text after the first k column rules.
RECURSIVE ColumnFold(_, _, _)
ColumnFold(text, rules, k) ==
    IF k = 0 THEN text
    ELSE ColumnRuleApply(rules[k], ColumnFold(text, rules, k - 1))

ApplyColumnMappings(text, tm, cm) ==
    LET rules == ColumnRules(tm, cm) IN ColumnFold(text, rules, Len(rules))

ApplyCorrections(text, tm, cm) ==
    ApplyColumnMappings(ApplyTableMappings(text, tm), tm, cm)

\* ------------------------------------------------------ update mode

\* len(re.findall(pattern, updated_sql, re.IGNORECASE)) from position i on
RECURSIVE FindAllFrom(_, _, _)
FindAllFrom(name, s, i) ==
    IF i > Len(s) + 1 THEN <<>>
    ELSE IF BoundaryMatch(name, s, i)
         THEN <<SubSeq(s, i, i + Len(name) - 1)>>
                 \o FindAllFrom(name, s, IF Len(name) = 0 THEN i + 1
                                         ELSE i + Len(name))
         ELSE FindAllFrom(name, s, i + 1)

\* A probe that counts every occurrence, bounded or not.
SubstringCount(name, s) ==
    Cardinality({i \in 1..Len(s) : MatchAt(name, s, i)})

CountProbe(name, s) == Len(FindAllFrom(name, s, 1))

\* The orders sort_values('name_length', ascending=False) may give the
\* rows: longest old_name first, rows of equal length in any order (the
\* default sort is not stable).
SortedOrders(rows) ==
    {[i \in DOMAIN rows |-> rows[p[i]]] :
        p \in {q \in [DOMAIN rows -> DOMAIN rows] :
                 /\ \A a, b \in DOMAIN rows : a # b => q[a] # q[b]
                 /\ \A a, b \in DOMAIN rows :
                       a < b => Len(rows[q[a]].old_name) >= Len(rows[q[b]].old_name)}}

\* ------------------------------------------------------ batch (main)

\* A pattern that holds the name as it is, unescaped, compiles: among the
\* characters of the model only a parenthesis without its partner makes
\* re.compile raise re.error.
RECURSIVE ParensPaired(_, _, _)
ParensPaired(s, i, depth) ==
    IF i > Len(s) THEN depth = 0
    ELSE IF s[i] = "(" THEN ParensPaired(s, i + 1, depth + 1)
    ELSE IF s[i] = ")" THEN depth > 0 /\ ParensPaired(s, i + 1, depth - 1)
    ELSE ParensPaired(s, i + 1, depth)

PatternCompiles(name) == ParensPaired(name, 1, 0)

\* _check_mappings raises: for some column rule the first pattern finds
\* nothing, so any() goes on to the second, which holds {table} unescaped
\* and does not compile.
CheckMappingsRaises(cm, text) ==
    \E g \in DOMAIN cm : \E c \in DOMAIN cm[g].cols :
        /\ ~PatternCompiles(cm[g].table)
        /\ ~LookaroundSearch(cm[g].table \o <<".">> \o cm[g].cols[c].old, text)

\* The entry main records in its except branch.
FailedResult ==
    [original  |-> <<>>,
     issues    |-> <<Finding("ERROR: Failed to process file")>>,
     corrected |-> <<>>]

\* The entries the body of the try block can record for one file: the bytes
\* may not decode as UTF-8, the analysis may raise, and sqlparse decides the
\* rest.
FileResults(doc, tm, cm) ==
    IF ~doc.decodes THEN {FailedResult}
    ELSE IF CheckMappingsRaises(cm, doc.text) THEN {FailedResult}
    ELSE UNION {
           {[original  |-> doc.text,
             issues    |-> ValidateSqlStructure(doc.text, outcome)
                           \o CheckMappings(tm, cm, doc.text)
                           \o semantic_issues,
             corrected |-> ApplyCorrections(doc.text, tm, cm)] :
               semantic_issues \in SemanticOutcomes(doc.text, outcome)} :
           outcome \in ParseOutcomes(doc.text)}

\* An empty dict.
EmptyResults == [n \in {} |-> FailedResult]

\* A failure that takes the entries recorded so far with it.
RecordOrReset(results, name, rec) ==
    IF rec = FailedResult THEN [n \in {name} |-> rec]
    ELSE [n \in DOMAIN results \cup {name} |->
             IF n = name THEN rec ELSE results[n]]

\* analysis_results[sql_file.name] = {...}
RecordResult(results, name, rec) ==
    [n \in DOMAIN results \cup {name} |-> IF n = name THEN rec ELSE results[n]]

\* -------------------------------------------------------------- inputs

MaxPieces == 4

MaxTableRows == 2

RECURSIVE TextsOf(_, _)
TextsOf(pieces, n) ==
    IF n = 0 THEN {<<>>}
    ELSE LET shorter == TextsOf(pieces, n - 1)
         IN shorter \cup {p \o t : p \in pieces, t \in shorter}

\* Fragments of statements that name tables, columns and aliases.
RewritePieces ==
    { <<"t">>, <<"x">>, <<".","x">>, <<"(">>, <<" ">>, <<"\n">>,
      <<" ","f","r","o","m"," ","T">> }

\* Fragments of statements that decide the structural checks.
StructurePieces ==
    { <<"s","e","l","e","c","t"," ">>, <<" ","f","r","o","m"," ">>,
      <<"(">>, <<")">>, <<" ","j","o","i","n"," ","x">> }

Texts == TextsOf(RewritePieces, MaxPieces) \cup TextsOf(StructurePieces, MaxPieces)

TableRow(old, new) == [OldTableName |-> old, NewTableName |-> new]

ColumnRow(table, old, new) ==
    [TableName |-> table, OldColumnName |-> old, NewColumnName |-> new]

TableSheet(rows) == [columns |-> TableRequired, rows |-> rows]

ColumnSheet(rows) == [columns |-> ColumnRequired, rows |-> rows]

\* Table sheets with well-formed names: a rename, a rename that changes
\* the case alone, two renames, and a sheet without its headers.
TableFrames ==
    { TableSheet(<<TableRow(<<"t">>, <<"u">>)>>),
      TableSheet(<<TableRow(<<"t">>, <<"T">>)>>),
      TableSheet(<<TableRow(<<" ","t">>, <<"u"," ">>), TableRow(<<"x">>, <<"T">>)>>),
      [columns |-> {"OldTableName"}, rows |-> <<>>] }

\* Column sheets: the column x renamed under either new table name, and
\* a row with a missing cell.
ColumnFrames ==
    { ColumnSheet(<<ColumnRow(<<"u">>, <<"x">>, <<"y">>),
                    ColumnRow(<<"T">>, <<"x"," ">>, <<"y">>),
                    ColumnRow(<<"u">>, <<"t">>, NaN)>>) }

\* Cells as a spreadsheet can hold them: missing, white space alone,
\* padded, plain.
RawTableCells == { NaN, <<" ">>, <<" ","t">>, <<"u">> }

RawColumnCells == { NaN, <<" ">>, <<"x"," ">> }

RECURSIVE SeqsUpTo(_, _)
SeqsUpTo(S, n) ==
    IF n = 0 THEN {<<>>}
    ELSE LET shorter == SeqsUpTo(S, n - 1)
         IN shorter \cup {Append(q, e) : q \in shorter, e \in S}

RawTableFrames ==
    { TableSheet(rows) :
        rows \in SeqsUpTo({TableRow(a, b) : a, b \in RawTableCells}, MaxTableRows) }
    \cup { [columns |-> {"NewTableName"}, rows |-> <<>>] }

RawColumnFrames ==
    { ColumnSheet(<<>>) }
    \cup { ColumnSheet(<<ColumnRow(a, b, c)>>) : a, b, c \in RawColumnCells }

UpdateRow(old, new) == [old_name |-> old, new_name |-> new]

\* Mapping sheets of the update dashboard: one rename; a longer and a
\* shorter old name; rows the guard skips and a rename of the case alone.
UpdateFrames ==
    { <<UpdateRow(<<"t">>, <<"u">>)>>,
      <<UpdateRow(<<"t">>, <<"u","u">>), UpdateRow(<<"t","x">>, <<"t">>)>>,
      <<UpdateRow(<<" ">>, <<"u">>), UpdateRow(<<"x">>, <<"x">>),
        UpdateRow(<<"T"," ">>, <<"t">>)>> }

UpdatePieces == { <<"t">>, <<"T">>, <<"x">>, <<" ">>, <<"_">> }

UpdateTexts == TextsOf(UpdatePieces, MaxPieces)

MaxFiles == 2

FileNames == {"a.sql", "b.sql"}

\* The texts of the files of a batch: a column and its table, two table
\* names of which one begins with the other, an empty file, a column
\* qualified by a table name with a parenthesis, table names in either
\* case on two lines, and a text that holds new names already.
BatchTexts ==
    { <<"x"," ","f","r","o","m"," ","t">>, <<"t"," ","t","x">>, <<>>,
      <<"u","(",".","x">>,
      <<"T",".","x"," ","t","x","\n","t">>,
      <<"v"," ","t"," ","u"," ","T","X">> }

SqlFile(name, decodes, text) == [name |-> name, decodes |-> decodes, text |-> text]

\* An uploaded file: bytes that decode to a text, or bytes that do not.
BatchFiles ==
    {SqlFile(n, TRUE, t) : n \in FileNames, t \in BatchTexts}
    \cup {SqlFile(n, FALSE, <<>>) : n \in FileNames}

\* sql_files: main goes on only with at least one file.
BatchUploads == SeqsUpTo(BatchFiles, MaxFiles) \ {<<>>}

\* Mapping files of a batch: one table rule; two table rules with old names
\* of which one begins with the other; two table rules whose old names
\* differ in the case alone; a new table name with a parenthesis.
BatchSheets ==
    { [tables  |-> TableSheet(<<TableRow(<<"t">>, <<"u">>)>>),
       columns |-> ColumnSheet(<<ColumnRow(<<"u">>, <<"x">>, <<"y">>)>>)],
      [tables  |-> TableSheet(<<TableRow(<<"t">>, <<"u">>),
                               TableRow(<<"t","x">>, <<"v">>)>>),
       columns |-> ColumnSheet(<<ColumnRow(<<"u">>, <<"x">>, <<"y">>)>>)],
      [tables  |-> TableSheet(<<TableRow(<<"t">>, <<"u">>),
                               TableRow(<<"T">>, <<"v">>)>>),
       columns |-> ColumnSheet(<<>>)],
      [tables  |-> TableSheet(<<TableRow(<<"t">>, <<"u","(">>)>>),
       columns |-> ColumnSheet(<<ColumnRow(<<"u","(">>, <<"x">>, <<"y">>)>>)] }

\* --------------------------------------------------------------- state

VARIABLES
    pc,                \* where the run stands
    table_df,          \* the uploaded 'TableMappings' sheet
    column_df,         \* the uploaded 'ColumnMappings' sheet
    table_mappings,    \* SQLMappingReviewer.table_mappings
    column_mappings,   \* SQLMappingReviewer.column_mappings
    review_comments,   \* SQLMappingReviewer.review_comments
    sql_content,       \* the text of the document being processed
    parse_outcome,     \* what sqlparse.parse made of it
    issues,            \* the findings of analyze_sql_content
    corrected_content, \* the result of apply_corrections
    mapping_rows,      \* update mode: the sorted rows of mapping_df
    update_idx,        \* update mode: the row the loop stands at
    updated_sql,       \* update mode: updated_sql
    prev_sql,          \* update mode: updated_sql before the last row
    changes_made,      \* update mode: changes_made
    sql_files,         \* main: the uploaded SQL files
    batch_idx,         \* main: the file the loop over sql_files stands at
    analysis_results   \* main: analysis_results

reviewer_vars == <<table_df, column_df, table_mappings, column_mappings,
                   review_comments, sql_content, parse_outcome, issues,
                   corrected_content>>

update_vars == <<mapping_rows, update_idx, updated_sql, prev_sql, changes_made>>

batch_vars == <<sql_files, batch_idx, analysis_results>>

vars == <<pc, reviewer_vars, update_vars, batch_vars>>

\* SQLMappingReviewer.__init__; None is the empty sequence.
Init ==
    /\ pc = "start"
    /\ table_df = TableSheet(<<>>)
    /\ column_df = ColumnSheet(<<>>)
    /\ table_mappings = <<>>
    /\ column_mappings = <<>>
    /\ review_comments = <<>>
    /\ sql_content = <<>>
    /\ parse_outcome = "none"
    /\ issues = <<>>
    /\ corrected_content = <<>>
    /\ mapping_rows = <<>>
    /\ update_idx = 0
    /\ updated_sql = <<>>
    /\ prev_sql = <<>>
    /\ changes_made = <<>>
    /\ sql_files = <<>>
    /\ batch_idx = 0
    /\ analysis_results = EmptyResults

\* load_mappings_from_dataframe(table_df, column_df)
LoadMappings(tf, cf) ==
    /\ pc = "start"
    /\ table_df' = tf
    /\ column_df' = cf
    /\ IF TableRequired \subseteq tf.columns /\ ColumnRequired \subseteq cf.columns
       THEN /\ table_mappings' = LoadedTableMappings(tf.rows)
            /\ column_mappings' = LoadedColumnMappings(cf.rows)
            /\ review_comments' = review_comments
            /\ pc' = "loaded"
       ELSE /\ review_comments' =
                 Append(review_comments, Finding("CRITICAL: Failed to load mappings"))
            /\ UNCHANGED <<table_mappings, column_mappings>>
            /\ pc' = "load_failed"
    /\ UNCHANGED <<sql_content, parse_outcome, issues, corrected_content>>
    /\ UNCHANGED update_vars
    /\ UNCHANGED batch_vars

\* The mapping file the user uploads, with well-formed names.
UploadSheets == \E tf \in TableFrames, cf \in ColumnFrames : LoadMappings(tf, cf)

\* The mapping file the user uploads, with cells of any kind.
UploadRawSheets ==
    \E tf \in RawTableFrames, cf \in RawColumnFrames : LoadMappings(tf, cf)

\* main: sql_content = sql_file.read().decode('utf-8');
\* issues = reviewer.analyze_sql_content(sql_content, sql_file.name)
AnalyzeSqlContent ==
    /\ pc = "loaded"
    /\ \E text \in Texts :
         \E outcome \in ParseOutcomes(text) :
           \E semantic_issues \in SemanticOutcomes(text, outcome) :
              /\ sql_content' = text
              /\ parse_outcome' = outcome
              /\ issues' = ValidateSqlStructure(text, outcome)
                           \o CheckMappings(table_mappings, column_mappings, text)
                           \o semantic_issues
    /\ pc' = "analyzed"
    /\ UNCHANGED <<table_df, column_df, table_mappings, column_mappings,
                   review_comments, corrected_content>>
    /\ UNCHANGED update_vars
    /\ UNCHANGED batch_vars

\* main: corrected_content = reviewer.apply_corrections(sql_content)
ApplyCorrectionsStep ==
    /\ pc = "analyzed"
    /\ corrected_content' =
          ApplyCorrections(sql_content, table_mappings, column_mappings)
    /\ pc' = "done"
    /\ UNCHANGED <<table_df, column_df, table_mappings, column_mappings,
                   review_comments, sql_content, parse_outcome, issues>>
    /\ UNCHANGED update_vars
    /\ UNCHANGED batch_vars

\* update_sql_with_mappings(sql_content, mapping_df), up to the loop
StartUpdate ==
    /\ pc = "start"
    /\ \E df \in UpdateFrames, sql \in UpdateTexts :
         \E order \in SortedOrders(df) :
            /\ mapping_rows' = order
            /\ updated_sql' = sql
            /\ prev_sql' = sql
    /\ changes_made' = <<>>
    /\ update_idx' = 1
    /\ pc' = "update"
    /\ UNCHANGED reviewer_vars
    /\ UNCHANGED batch_vars

\* One turn of 'for _, row in mapping_df.iterrows()'
UpdateStep ==
    /\ pc = "update"
    /\ update_idx <= Len(mapping_rows)
    /\ LET old_name == Strip(mapping_rows[update_idx].old_name)
           new_name == Strip(mapping_rows[update_idx].new_name)
           count == CountProbe(old_name, updated_sql)
       IN IF old_name # <<>> /\ new_name # <<>> /\ old_name # new_name /\ count > 0
          THEN /\ updated_sql' = BoundarySub(old_name, new_name, updated_sql)
               /\ changes_made' = Append(changes_made,
                     [old |-> old_name, new |-> new_name, occurrences |-> count])
          ELSE UNCHANGED <<updated_sql, changes_made>>
    /\ prev_sql' = updated_sql
    /\ update_idx' = update_idx + 1
    /\ UNCHANGED <<pc, mapping_rows>>
    /\ UNCHANGED reviewer_vars
    /\ UNCHANGED batch_vars

\* return updated_sql, changes_made
FinishUpdate ==
    /\ pc = "update"
    /\ update_idx > Len(mapping_rows)
    /\ pc' = "updated"
    /\ UNCHANGED update_vars
    /\ UNCHANGED batch_vars
    /\ UNCHANGED reviewer_vars

\* The mapping file of a batch.
UploadBatchSheets ==
    \E sh \in BatchSheets : LoadMappings(sh.tables, sh.columns)

\* main: the files are uploaded, analysis_results = {}
StartBatch ==
    /\ pc = "loaded"
    /\ \E files \in BatchUploads : sql_files' = files
    /\ batch_idx' = 1
    /\ analysis_results' = EmptyResults
    /\ pc' = "batch"
    /\ UNCHANGED reviewer_vars
    /\ UNCHANGED update_vars

\* One turn of 'for i, sql_file in enumerate(sql_files)': the try block and
\* its except branch.
ProcessFile ==
    /\ pc = "batch"
    /\ batch_idx <= Len(sql_files)
    /\ \E rec \in FileResults(sql_files[batch_idx], table_mappings, column_mappings) :
          analysis_results' =
             RecordResult(analysis_results, sql_files[batch_idx].name, rec)
    /\ batch_idx' = batch_idx + 1
    /\ UNCHANGED <<pc, sql_files>>
    /\ UNCHANGED reviewer_vars
    /\ UNCHANGED update_vars

\* main: status_text.text("Processing complete!")
FinishBatch ==
    /\ pc = "batch"
    /\ batch_idx > Len(sql_files)
    /\ pc' = "batch_done"
    /\ UNCHANGED batch_vars
    /\ UNCHANGED reviewer_vars
    /\ UNCHANGED update_vars

Next ==
    \/ UploadSheets
    \/ AnalyzeSqlContent
    \/ ApplyCorrectionsStep
    \/ StartUpdate
    \/ UpdateStep
    \/ FinishUpdate

Spec == Init /\ [][Next]_vars

NextLoad == UploadRawSheets

\* The mapping repository alone, on sheets with cells of any kind.
SpecLoad == Init /\ [][NextLoad]_vars

NextBatch ==
    \/ UploadBatchSheets
    \/ StartBatch
    \/ ProcessFile
    \/ FinishBatch

\* The batch of main: one mapping file, then the files one by one.
SpecBatch == Init /\ [][NextBatch]_vars

\* ---------------------------------------------------------- properties

\* A text as its tokens: the runs of word characters, and every other
\* character on its own.
RECURSIVE TokensFrom(_, _)
TokensFrom(s, i) ==
    IF i > Len(s) THEN <<>>
    ELSE IF IsWordAt(s, i)
         THEN LET j == WordRunEnd(s, i)
              IN <<SubSeq(s, i, j)>> \o TokensFrom(s, j + 1)
         ELSE << <<s[i]>> >> \o TokensFrom(s, i + 1)

Tokens(s) == TokensFrom(s, 1)

IsWordToken(tok) == IsWordAt(tok, 1)

\* The token is a word that starts with a letter or an underscore.
IsNameToken(tok) == IsWordToken(tok) /\ tok[1] \in LetterSet \cup {"_"}

\* Token i is the column part of '<word>.<column>'.
QualifiedTok(toks, i) ==
    i >= 3 /\ toks[i - 1] = <<".">> /\ IsWordToken(toks[i - 2])

\* The first token after token i that is not in skip is '('.
RECURSIVE ParenFollows(_, _, _)
ParenFollows(toks, i, skip) ==
    IF i + 1 > Len(toks) THEN FALSE
    ELSE IF toks[i + 1] \in skip THEN ParenFollows(toks, i + 1, skip)
    ELSE toks[i + 1] = <<"(">>

\* name lies inside the longer word tok.
Embedded(name, tok) ==
    /\ IsWordToken(tok)
    /\ Len(tok) > Len(name)
    /\ \E p \in 1..Len(tok) : MatchAt(name, tok, p)

\* Some line of the text has the word FROM and, after it, the word table.
FromClauseNames(table, text) ==
    \E l \in DOMAIN SplitLines(text) :
        LET toks == Tokens(SplitLines(text)[l])
        IN \E f, k \in DOMAIN toks :
              f < k /\ EqualFold(toks[f], FromWord) /\ EqualFold(toks[k], table)

\* The text the column pass starts from.
Tabled == ApplyTableMappings(sql_content, table_mappings)

\* The column rules the column pass applies.
ActiveRules == ColumnRules(table_mappings, column_mappings)

\* Every rule of the mapping set as an old name and a new name.
AllRenames ==
    {[old |-> table_mappings[k].old, new |-> table_mappings[k].new] :
        k \in DOMAIN table_mappings}
    \cup UNION {{[old |-> column_mappings[g].cols[c].old,
                  new |-> column_mappings[g].cols[c].new] :
                    c \in DOMAIN column_mappings[g].cols} :
                 g \in DOMAIN column_mappings}

\* No rule's new name is, in any case of the letters, another rule's old name.
NoCollisions ==
    \A r1, r2 \in AllRenames : r1 # r2 => ~EqualFold(r1.new, r2.old)

\* C1: with one table rule old_table -> new_table and a column rule of
\* new_table, in a document with a FROM clause naming old_table every
\* unqualified old_column token that no '(' follows, on a line with no
\* '<word>.old_column', comes out as new_column.
UnqualifiedColumnRewrite ==
    (pc = "done" /\ Len(table_mappings) = 1) =>
    \A k \in DOMAIN ActiveRules :
       LET r == ActiveRules[k]
           before == SplitLines(sql_content)
           after == SplitLines(corrected_content)
       IN FromClauseNames(r.old_table, sql_content) =>
          /\ Len(after) = Len(before)
          /\ \A l \in DOMAIN before :
                LET tb == Tokens(before[l])
                    ta == Tokens(after[l])
                IN (\A j \in DOMAIN tb :
                       ~(QualifiedTok(tb, j) /\ EqualFold(tb[j], r.old)))
                   => /\ Len(ta) = Len(tb)
                      /\ \A i \in DOMAIN tb :
                            (EqualFold(tb[i], r.old)
                               /\ ~ParenFollows(tb, i, {<<" ">>}))
                            => ta[i] = r.new

\* C2: for a mapping set without collisions, correcting the corrected
\* text again changes nothing.
CorrectionIdempotent ==
    (pc = "done" /\ NoCollisions) =>
    ApplyCorrections(corrected_content, table_mappings, column_mappings)
       = corrected_content

\* C3: a table rule leaves every token that is not its old name as it
\* was, the words that hold the old name inside them among these: only an
\* occurrence between non-word characters or the ends of the text is
\* replaced.
BoundarySafety ==
    pc = "done" =>
    \A k \in DOMAIN table_mappings :
       LET tb == Tokens(TableFold(sql_content, table_mappings, k - 1))
           ta == Tokens(TableFold(sql_content, table_mappings, k))
       IN /\ Len(ta) = Len(tb)
          /\ \A i \in DOMAIN tb :
                ~EqualFold(tb[i], table_mappings[k].old) => ta[i] = tb[i]

\* A word that holds the old name inside it stood next to an occurrence
\* that was replaced.
BoundarySafetyWitness ==
    /\ pc = "done"
    /\ \E k \in DOMAIN table_mappings :
          LET tb == Tokens(TableFold(sql_content, table_mappings, k - 1))
              ta == Tokens(TableFold(sql_content, table_mappings, k))
          IN \E i, j \in DOMAIN tb :
                /\ Embedded(table_mappings[k].old, tb[i])
                /\ ta[i] = tb[i]
                /\ EqualFold(tb[j], table_mappings[k].old)
                /\ ta[j] = table_mappings[k].new
                /\ ta[j] # tb[j]

LoadedRulesTrimmedAndComplete ==
    pc = "loaded" =>
    /\ \A k \in DOMAIN table_mappings :
          /\ Strip(table_mappings[k].old) = table_mappings[k].old
          /\ Strip(table_mappings[k].new) = table_mappings[k].new
          /\ table_mappings[k].old # <<>>
          /\ table_mappings[k].new # <<>>
          /\ table_mappings[k].old # NaN
          /\ table_mappings[k].new # NaN
    /\ \A g \in DOMAIN column_mappings :
          /\ Strip(column_mappings[g].table) = column_mappings[g].table
          /\ column_mappings[g].table # <<>>
          /\ column_mappings[g].table # NaN
          /\ \A c \in DOMAIN column_mappings[g].cols :
                LET e == column_mappings[g].cols[c]
                IN /\ Strip(e.old) = e.old
                   /\ Strip(e.new) = e.new
                   /\ e.old # <<>>
                   /\ e.new # <<>>
                   /\ e.old # NaN
                   /\ e.new # NaN

\* C6: the column pass never rewrites an unqualified old_column token that
\* '(' follows, white space of any kind (blanks, line breaks) between them
\* allowed.
FunctionNameGuard ==
    pc = "done" =>
    LET tb == Tokens(Tabled)
        ta == Tokens(corrected_content)
    IN /\ Len(ta) = Len(tb)
       /\ \A i \in DOMAIN tb :
             (/\ \E k \in DOMAIN ActiveRules : EqualFold(tb[i], ActiveRules[k].old)
              /\ ~QualifiedTok(tb, i)
              /\ ParenFollows(tb, i, {<<" ">>, <<"\n">>}))
             => ta[i] = tb[i]

\* The rule of the row the update loop has just left, when the loop
\* applied it.
LastUpdateRule ==
    [old |-> Strip(mapping_rows[update_idx - 1].old_name),
     new |-> Strip(mapping_rows[update_idx - 1].new_name)]

\* C7: whatever the case of the letters of a match, the table pass and the
\* update loop put the rule's new name in its place, as declared.
ReplacementVerbatim ==
    /\ pc = "done" =>
          \A k \in DOMAIN table_mappings :
             LET tb == Tokens(TableFold(sql_content, table_mappings, k - 1))
                 ta == Tokens(TableFold(sql_content, table_mappings, k))
             IN /\ Len(ta) = Len(tb)
                /\ \A i \in DOMAIN tb :
                      EqualFold(tb[i], table_mappings[k].old)
                      => ta[i] = table_mappings[k].new
    /\ (pc \in {"update", "updated"} /\ update_idx > 1) =>
          LET r == LastUpdateRule
              tb == Tokens(prev_sql)
              ta == Tokens(updated_sql)
          IN (r.old # <<>> /\ r.new # <<>> /\ r.old # r.new) =>
                /\ Len(ta) = Len(tb)
                /\ \A i \in DOMAIN tb : EqualFold(tb[i], r.old) => ta[i] = r.new

\* The table pass replaced an occurrence written in another case than the
\* rule's old name.
ReplacementVerbatimWitness ==
    /\ pc = "done"
    /\ \E k \in DOMAIN table_mappings :
          LET tb == Tokens(TableFold(sql_content, table_mappings, k - 1))
              ta == Tokens(corrected_content)
          IN /\ Len(ta) = Len(tb)
             /\ \E i \in DOMAIN tb :
                   /\ EqualFold(tb[i], table_mappings[k].old)
                   /\ tb[i] # table_mappings[k].old
                   /\ ta[i] = table_mappings[k].new
                   /\ ta[i] # tb[i]

\* The number of tokens of the text that are the name, in any case.
TokenCount(name, text) ==
    LET toks == Tokens(text)
    IN Cardinality({i \in DOMAIN toks : EqualFold(toks[i], name)})

\* C8: a turn of the update loop reports a rule exactly when it replaces
\* at least one token, the count it reports is the number of tokens it
\* replaced, and a rule without a match reports and changes nothing.
CountEqualsSubstitutions ==
    [][(pc = "update" /\ update_idx <= Len(mapping_rows)
          /\ update_idx' = update_idx + 1) =>
        LET old == Strip(mapping_rows[update_idx].old_name)
            new == Strip(mapping_rows[update_idx].new_name)
            tb == Tokens(updated_sql)
            ta == Tokens(updated_sql')
            n == TokenCount(old, updated_sql)
        IN IF changes_made' # changes_made
           THEN /\ changes_made' = Append(changes_made,
                      [old |-> old, new |-> new, occurrences |-> n])
                /\ n > 0
                /\ Len(ta) = Len(tb)
                /\ \A i \in DOMAIN tb :
                      ta[i] = IF EqualFold(tb[i], old) THEN new ELSE tb[i]
           ELSE /\ updated_sql' = updated_sql
                /\ (old # <<>> /\ new # <<>> /\ old # new) => n = 0
      ]_vars

\* The loop reported a rule that replaced two tokens and passed a rule
\* that it did not report.
CountEqualsSubstitutionsWitness ==
    /\ pc = "updated"
    /\ Len(changes_made) >= 1
    /\ Len(changes_made) < Len(mapping_rows)
    /\ \E c \in DOMAIN changes_made : changes_made[c].occurrences >= 2
    /\ updated_sql # prev_sql

HasFinding(m) == \E i \in DOMAIN issues : issues[i].msg = m

CountFinding(f) == Cardinality({i \in DOMAIN issues : issues[i] = f})

\* The word is in the text, in any case of its letters.
HasWord(word, text) == \E i \in 1..Len(text) : MatchAt(word, text, i)

\* The findings of the three checks are those the text calls for.
StructuralFindingsExact ==
    /\ HasFinding("ERROR: Missing SELECT clause") <=> ~HasWord(SelectWord, sql_content)
    /\ HasFinding("ERROR: Missing FROM clause") <=> ~HasWord(FromWord, sql_content)
    /\ HasFinding("ERROR: Unbalanced parentheses")
          <=> (CountChar("(", sql_content) # CountChar(")", sql_content))

\* C9 as stated: for every input text the three checks all run.
StructuralChecksAlwaysRun ==
    (pc = "analyzed" /\ parse_outcome # "raise") => StructuralFindingsExact

\* C9 as amended: for every text that parses into at least one statement
\* the three checks all run, each on its own.
StructuralChecksRunWhenParsed ==
    (pc = "analyzed" /\ parse_outcome = "ok") =>
    /\ StructuralFindingsExact
    /\ ~HasFinding("ERROR: Empty SQL file")
    /\ ~HasFinding("CRITICAL: SQL Parsing Failed")
    /\ \A m \in {"ERROR: Missing SELECT clause", "ERROR: Missing FROM clause",
                 "ERROR: Unbalanced parentheses"} : CountFinding(Finding(m)) <= 1

\* A text without SELECT, without FROM and with an open parenthesis got
\* the three findings.
StructuralChecksWitness ==
    /\ pc = "analyzed"
    /\ parse_outcome = "ok"
    /\ HasFinding("ERROR: Missing SELECT clause")
    /\ HasFinding("ERROR: Missing FROM clause")
    /\ HasFinding("ERROR: Unbalanced parentheses")

\* C10: analysis gives one table finding for a rule whose old name is a
\* token of the text, however often, and none for any other rule.
TableAuditCardinality ==
    pc \in {"analyzed", "done"} =>
    \A k \in DOMAIN table_mappings :
       CountFinding(TableFinding(table_mappings[k]))
          = IF TokenCount(table_mappings[k].old, sql_content) > 0 THEN 1 ELSE 0

\* Before any correction, a rule whose old name stands twice in the text
\* has one finding.
TableAuditWitness ==
    /\ pc = "analyzed"
    /\ \E k \in DOMAIN table_mappings :
          /\ TokenCount(table_mappings[k].old, sql_content) >= 2
          /\ CountFinding(TableFinding(table_mappings[k])) = 1

\* The names of the files the loop has gone through.
ProcessedNames == {sql_files[i].name : i \in 1..(batch_idx - 1)}

\* The last file of that name the loop has gone through.
LastFileNamed(n) ==
    sql_files[CHOOSE i \in 1..(batch_idx - 1) :
                 /\ sql_files[i].name = n
                 /\ \A j \in (i + 1)..(batch_idx - 1) : sql_files[j].name # n]

\* The entry holds the file's own text, its findings of the three stages
\* and its corrected text.
OwnEntry(doc, rec) ==
    /\ rec.original = doc.text
    /\ rec.corrected = ApplyCorrections(doc.text, table_mappings, column_mappings)
    /\ \E outcome \in ParseOutcomes(doc.text) :
          \E semantic_issues \in SemanticOutcomes(doc.text, outcome) :
             rec.issues = ValidateSqlStructure(doc.text, outcome)
                          \o CheckMappings(table_mappings, column_mappings, doc.text)
                          \o semantic_issues

CriticalMessages == {"CRITICAL: SQL Parsing Failed", "CRITICAL: Failed to load mappings"}

HasCritical(rec) == \E i \in DOMAIN rec.issues : rec.issues[i].msg \in CriticalMessages

\* Every table name of the column rules is made of word characters.
PlainTableNames ==
    \A g \in DOMAIN column_mappings :
        \A i \in DOMAIN column_mappings[g].table :
            column_mappings[g].table[i] \in WordChars

\* C11 as stated: the batch goes through every file, every file that can
\* be read has its own findings and corrected text recorded, and a file
\* that cannot be read has a CRITICAL finding recorded.
BatchIsolationCritical ==
    pc \in {"batch", "batch_done"} =>
    /\ DOMAIN analysis_results = ProcessedNames
    /\ pc = "batch_done" => batch_idx = Len(sql_files) + 1
    /\ \A n \in ProcessedNames :
          LET doc == LastFileNamed(n)
              rec == analysis_results[n]
          IN IF doc.decodes /\ PlainTableNames
             THEN OwnEntry(doc, rec)
             ELSE HasCritical(rec) \/ OwnEntry(doc, rec)

\* C11 as amended: the batch goes through every file; under each file name
\* stands the entry of the last file of that name; a file that can be read
\* has its own findings and corrected text recorded (when the mapping set
\* holds plain table names, always), and a failure leaves the entry with
\* the single finding 'ERROR: Failed to process file' and empty texts, for
\* that file alone.
BatchIsolation ==
    pc \in {"batch", "batch_done"} =>
    /\ DOMAIN analysis_results = ProcessedNames
    /\ pc = "batch_done" => batch_idx = Len(sql_files) + 1
    /\ \A n \in ProcessedNames :
          LET doc == LastFileNamed(n)
              rec == analysis_results[n]
          IN /\ ~doc.decodes => rec = FailedResult
             /\ doc.decodes => (rec = FailedResult \/ OwnEntry(doc, rec))
             /\ (doc.decodes /\ PlainTableNames) => OwnEntry(doc, rec)

\* A finished batch of a file that could not be read and, after it, a file
\* that has its own findings and a rewritten text.
BatchIsolationWitness ==
    /\ pc = "batch_done"
    /\ Len(sql_files) = 2
    /\ ~sql_files[1].decodes
    /\ sql_files[2].decodes
    /\ sql_files[1].name # sql_files[2].name
    /\ analysis_results[sql_files[1].name] = FailedResult
    /\ OwnEntry(sql_files[2], analysis_results[sql_files[2].name])
    /\ analysis_results[sql_files[2].name].corrected # sql_files[2].text
    /\ Len(analysis_results[sql_files[2].name].issues) > 0

\* C12: for every file whose text was read, whatever the three stages of
\* the analysis gave or failed to give, the entry holds the output of the
\* correction pass on the raw text and the findings of all three stages.
CorrectionNeverBlocked ==
    pc \in {"batch", "batch_done"} =>
    \A n \in ProcessedNames :
       LET doc == LastFileNamed(n)
           rec == analysis_results[n]
       IN doc.decodes =>
             /\ rec.corrected =
                   ApplyCorrections(doc.text, table_mappings, column_mappings)
             /\ \E outcome \in ParseOutcomes(doc.text) :
                   \E semantic_issues \in SemanticOutcomes(doc.text, outcome) :
                      rec.issues =
                         ValidateSqlStructure(doc.text, outcome)
                         \o CheckMappings(table_mappings, column_mappings, doc.text)
                         \o semantic_issues

\* The text holds '<table>.<column>' as three tokens in a row.
QualifiedFormIn(table, column, toks) ==
    \E i \in DOMAIN toks :
        /\ i + 2 <= Len(toks)
        /\ EqualFold(toks[i], table)
        /\ toks[i + 1] = <<".">>
        /\ EqualFold(toks[i + 2], column)

\* The text holds the column as a token of its own, not qualified, and
\* somewhere, on any line, the word FROM with the table after it.
UnqualifiedWithFrom(table, column, toks) ==
    /\ \E i \in DOMAIN toks : EqualFold(toks[i], column) /\ ~QualifiedTok(toks, i)
    /\ \E f, k \in DOMAIN toks :
          f < k /\ EqualFold(toks[f], FromWord) /\ EqualFold(toks[k], table)

\* C13: analysis gives the column finding of a rule whenever the text
\* holds 'table.old_column', or holds an unqualified old_column and a FROM
\* clause that names the table, before or after the column, on the same
\* line or another.
ColumnAuditCoOccurrence ==
    pc = "analyzed" =>
    \A g \in DOMAIN column_mappings : \A c \in DOMAIN column_mappings[g].cols :
       LET table == column_mappings[g].table
           col == column_mappings[g].cols[c]
           toks == Tokens(sql_content)
       IN (\/ QualifiedFormIn(table, col.old, toks)
           \/ UnqualifiedWithFrom(table, col.old, toks))
          => CountFinding(ColumnFinding(table, col)) >= 1

\* The orders in which the rules can be applied.
OrdersOf(rules) ==
    {[i \in DOMAIN rules |-> rules[p[i]]] :
        p \in {q \in [DOMAIN rules -> DOMAIN rules] :
                 \A a, b \in DOMAIN rules : a # b => q[a] # q[b]}}

\* The table pass gives the text the same result in every order of its rules.
TablePassOrderFree(text) ==
    \A rules \in OrdersOf(table_mappings) :
        TableFold(text, rules, Len(rules))
           = TableFold(text, table_mappings, Len(table_mappings))

\* The recorded text is the column pass applied to the result of the whole
\* table pass.
TablePassFirst(text, corrected) ==
    corrected = ColumnFold(TableFold(text, table_mappings, Len(table_mappings)),
                           ActiveRules, Len(ActiveRules))

\* Old names differ as written, and no new name is, as written, another
\* rule's old name.
DistinctAsWritten ==
    \A a, b \in DOMAIN table_mappings :
        a # b => /\ table_mappings[a].old # table_mappings[b].old
                 /\ table_mappings[a].new # table_mappings[b].old

\* Every name is one word; old names differ in more than the case of their
\* letters, and no new name is, in any case, another rule's old name.
DistinctInAnyCase ==
    /\ \A a \in DOMAIN table_mappings :
          \A i \in DOMAIN table_mappings[a].new :
              table_mappings[a].new[i] \in WordChars
    /\ \A a \in DOMAIN table_mappings :
          \A i \in DOMAIN table_mappings[a].old :
              table_mappings[a].old[i] \in WordChars
    /\ \A a, b \in DOMAIN table_mappings :
          a # b => /\ ~EqualFold(table_mappings[a].old, table_mappings[b].old)
                   /\ ~EqualFold(table_mappings[a].new, table_mappings[b].old)

\* C14 as stated: with distinct old names and no new name that is another
\* rule's old name, the table pass gives the same text in every order of
\* its rules, and the column pass starts from the result of the whole
\* table pass.
TablePassOrderIndependent ==
    pc \in {"batch", "batch_done"} =>
    \A n \in ProcessedNames :
       LET doc == LastFileNamed(n)
           rec == analysis_results[n]
       IN (doc.decodes /\ rec # FailedResult) =>
             /\ TablePassFirst(doc.text, rec.corrected)
             /\ DistinctAsWritten => TablePassOrderFree(doc.text)

\* C14 as amended: the same, for names of one word each, with old names
\* that differ in more than the case of their letters and no new name
\* that is, in any case, another rule's old name.
TablePassOrderIndependentFolded ==
    pc \in {"batch", "batch_done"} =>
    \A n \in ProcessedNames :
       LET doc == LastFileNamed(n)
           rec == analysis_results[n]
       IN (doc.decodes /\ rec # FailedResult) =>
             /\ TablePassFirst(doc.text, rec.corrected)
             /\ DistinctInAnyCase => TablePassOrderFree(doc.text)

\* A file in which two table rules, one's old name the beginning of the
\* other's, each replaced a token.
TablePassOrderWitness ==
    /\ pc = "batch_done"
    /\ Len(table_mappings) = 2
    /\ DistinctInAnyCase
    /\ \E n \in ProcessedNames :
          LET doc == LastFileNamed(n)
              rec == analysis_results[n]
          IN /\ doc.decodes
             /\ TokenCount(table_mappings[1].old, doc.text) > 0
             /\ TokenCount(table_mappings[2].old, doc.text) > 0
             /\ TokenCount(table_mappings[1].new, rec.corrected) > 0
             /\ TokenCount(table_mappings[2].new, rec.corrected) > 0
             /\ TablePassOrderFree(doc.text)

====
